---------------------------- MODULE Spec2Model ----------------------------
(***************************************************************************)
(* Model of secmon-as-code/overseer:                                       *)
(*   - pkg/domain/model/alert.go : NewAlertID, NewAlert, AlertBody.Validate*)
(*   - the "run" CLI command     : runCommand's Action and listQueryFiles  *)
(*                                                                         *)
(* Representation notes.                                                   *)
(*   Strings that the code inspects character by character (timestamps,    *)
(*   file names, identifiers) are sequences of one-character strings.      *)
(*   A 64-bit count of seconds does not fit the checker's integers, so it  *)
(*   is kept as a pair [d, s] standing for d * 86400 + s with              *)
(*   0 <= s < 86400 ("wide" integer).  A time.Time is [d, s, nsec]: the    *)
(*   wide Unix second plus the nanosecond in 0 .. 1e9-1.                   *)
(*   A float64 is sign * (whole + 0.frac): the whole part as a wide        *)
(*   integer and the binary digits of the fraction, so that the float64    *)
(*   operations of the code are computed digit for digit.                  *)
(***************************************************************************)
EXTENDS Integers, Sequences, FiniteSets, TLC

VARIABLES
    clock,        \* the wall clock, as time.Now() reads it
    lastV7time,   \* uuid's process-wide last issued v7 (time, sequence)
    genCount,     \* number of identifiers generated so far (NewAlertID calls)
    call,         \* the last NewAlert call: its inputs and what it returned
    emitted,      \* the Alerts returned so far, in the order of their return: ID, the
                  \* clock reading of its generation and the number of that generation
    pending,      \* the NewAlert calls that have built their Alert and not yet returned
    lastPanicked, \* whether the last NewAlert or NewAlertID call panicked
    run           \* the last execution of the run command: input, I/O log, result

vars == <<clock, lastV7time, genCount, call, emitted, pending, lastPanicked, run>>

----------------------------------------------------------------------------
(* Wide integers and time.Time                                             *)

SecondsPerDay == 24 * 60 * 60
NanoPerSec    == 1000 * 1000 * 1000
NanoPerMilli  == 1000 * 1000

\* Go's integer division truncates toward zero.
TruncDiv(a, b) == IF a >= 0 THEN a \div b ELSE -((-a) \div b)

WNorm(d, s) == [d |-> d + (s \div SecondsPerDay), s |-> s % SecondsPerDay]
ToWide(n)   == WNorm(0, n)
WNeg(w)     == WNorm(-w.d, -w.s)
WAddInt(w, n) == WNorm(w.d, w.s + n)
WLess(a, b) == a.d < b.d \/ (a.d = b.d /\ a.s < b.s)

\* time.Unix(sec, nsec): nsec outside [0, 1e9) is carried into sec.
Unix(sec, nsec) ==
    IF nsec < 0 \/ nsec >= NanoPerSec
    THEN LET n  == TruncDiv(nsec, NanoPerSec)
             s1 == WAddInt(sec, n)
             r1 == nsec - n * NanoPerSec
         IN  IF r1 < 0
             THEN LET s2 == WAddInt(s1, -1)
                  IN  [d |-> s2.d, s |-> s2.s, nsec |-> r1 + NanoPerSec]
             ELSE [d |-> s1.d, s |-> s1.s, nsec |-> r1]
    ELSE [d |-> sec.d, s |-> sec.s, nsec |-> nsec]

\* Days from 0001-01-01 to 1970-01-01 (time.unixToInternal / secondsPerDay).
UnixToInternalDays == 1969 * 365 + (1969 \div 4) - (1969 \div 100) + (1969 \div 400)

\* The zero time.Time, January 1, year 1, 00:00:00 UTC, as a Unix instant.
ZeroTime == [d |-> -UnixToInternalDays, s |-> 0, nsec |-> 0]

\* Time.IsZero: internal second 0 and nanosecond 0.
IsZero(t) == t.d + UnixToInternalDays = 0 /\ t.s = 0 /\ t.nsec = 0

----------------------------------------------------------------------------
(* time.Parse(time.RFC3339, v), layout "2006-01-02T15:04:05Z07:00"         *)

DigitChars == <<"0", "1", "2", "3", "4", "5", "6", "7", "8", "9">>
DigitSet   == {DigitChars[i] : i \in 1..10}
DigitVal(c) == (CHOOSE i \in 1..10 : DigitChars[i] = c) - 1

\* isDigit(s, i) with Go's 0-based index
isDigit(s, i) == i < Len(s) /\ s[i + 1] \in DigitSet

Drop(s, n) == SubSeq(s, n + 1, Len(s))

\* getnum: one or two digits; exactly two when fixed.
getnum(s, fixed) ==
    IF ~isDigit(s, 0) THEN [ok |-> FALSE, n |-> 0, rest |-> s]
    ELSE IF ~isDigit(s, 1)
         THEN IF fixed THEN [ok |-> FALSE, n |-> 0, rest |-> s]
              ELSE [ok |-> TRUE, n |-> DigitVal(s[1]), rest |-> Drop(s, 1)]
         ELSE [ok |-> TRUE, n |-> DigitVal(s[1]) * 10 + DigitVal(s[2]), rest |-> Drop(s, 2)]

\* skip(value, prefix) for a one-character literal of the layout
skip(s, c) ==
    IF Len(s) >= 1 /\ s[1] = c THEN [ok |-> TRUE, rest |-> Drop(s, 1)]
    ELSE [ok |-> FALSE, rest |-> s]

\* stdLongYear: four characters, all digits
getyear(s) ==
    IF Len(s) < 4 \/ \E i \in 0..3 : ~isDigit(s, i)
    THEN [ok |-> FALSE, n |-> 0, rest |-> s]
    ELSE [ok |-> TRUE,
          n |-> DigitVal(s[1]) * 1000 + DigitVal(s[2]) * 100
                + DigitVal(s[3]) * 10 + DigitVal(s[4]),
          rest |-> Drop(s, 4)]

commaOrPeriod(c) == c = "." \/ c = ","

\* number of characters of a fractional second at the head of s: the
\* separator and the digits after it (0 when there is none)
RECURSIVE DigitRun(_, _)
DigitRun(s, n) == IF n < Len(s) /\ isDigit(s, n) THEN DigitRun(s, n + 1) ELSE n

FracLen(s) ==
    IF Len(s) >= 2 /\ commaOrPeriod(s[1]) /\ isDigit(s, 1) THEN DigitRun(s, 2) ELSE 0

RECURSIVE Pow10(_)
Pow10(k) == IF k = 0 THEN 1 ELSE 10 * Pow10(k - 1)

RECURSIVE atoiDigits(_, _)
atoiDigits(s, acc) ==
    IF Len(s) = 0 THEN acc ELSE atoiDigits(Drop(s, 1), acc * 10 + DigitVal(s[1]))

\* parseNanoseconds(value, nbytes): at most nine digits count
parseNanoseconds(s, nbytes) ==
    LET nb == IF nbytes > 10 THEN 10 ELSE nbytes
        ns == atoiDigits(SubSeq(s, 2, nb), 0)
    IN  ns * Pow10(10 - nb)

isLeap(year) == year % 4 = 0 /\ (year % 100 # 0 \/ year % 400 = 0)

daysIn(m, year) ==
    IF m = 2 THEN (IF isLeap(year) THEN 29 ELSE 28)
    ELSE IF m \in {4, 6, 9, 11} THEN 30 ELSE 31

\* Days from 1970-01-01 to the civil date year-month-day (time.Date).
DaysFromCivil(year, month, day) ==
    LET y   == IF month <= 2 THEN year - 1 ELSE year
        era == y \div 400
        yoe == y - era * 400
        mp  == IF month > 2 THEN month - 3 ELSE month + 9
        doy == ((153 * mp + 2) \div 5) + day - 1
        doe == yoe * 365 + (yoe \div 4) - (yoe \div 100) + doy
    IN  era * 146097 + doe - 719468

\* the zone "Z07:00": Z, or a sign, two digits, a colon, two digits
parsezone(s) ==
    IF Len(s) >= 1 /\ s[1] = "Z"
    THEN [ok |-> TRUE, offset |-> 0, rest |-> Drop(s, 1)]
    ELSE IF Len(s) < 6 \/ s[4] # ":"
    THEN [ok |-> FALSE, offset |-> 0, rest |-> s]
    ELSE LET hr == getnum(SubSeq(s, 2, 3), TRUE)
             mm == getnum(SubSeq(s, 5, 6), TRUE)
             off == (hr.n * 60 + mm.n) * 60
         IN  IF ~hr.ok \/ ~mm.ok \/ hr.n > 24 \/ mm.n > 60 \/ s[1] \notin {"+", "-"}
             THEN [ok |-> FALSE, offset |-> 0, rest |-> s]
             ELSE [ok |-> TRUE, offset |-> IF s[1] = "-" THEN -off ELSE off,
                   rest |-> Drop(s, 6)]

ParseFail == [ok |-> FALSE, t |-> ZeroTime]

ParseRFC3339(v) ==
    LET yr  == getyear(v)
        d1  == skip(yr.rest, "-")
        mon == getnum(d1.rest, TRUE)
        d2  == skip(mon.rest, "-")
        dy  == getnum(d2.rest, TRUE)
        tt  == skip(dy.rest, "T")
        hh  == getnum(tt.rest, FALSE)
        c1  == skip(hh.rest, ":")
        mi  == getnum(c1.rest, TRUE)
        c2  == skip(mi.rest, ":")
        ss  == getnum(c2.rest, TRUE)
        fl  == FracLen(ss.rest)
        ns  == IF fl = 0 THEN 0 ELSE parseNanoseconds(ss.rest, fl)
        zn  == parsezone(Drop(ss.rest, fl))
    IN  IF ~yr.ok \/ ~d1.ok THEN ParseFail
        ELSE IF ~mon.ok \/ mon.n <= 0 \/ 12 < mon.n \/ ~d2.ok THEN ParseFail
        ELSE IF ~dy.ok \/ ~tt.ok THEN ParseFail
        ELSE IF ~hh.ok \/ 24 <= hh.n \/ ~c1.ok THEN ParseFail
        ELSE IF ~mi.ok \/ 60 <= mi.n \/ ~c2.ok THEN ParseFail
        ELSE IF ~ss.ok \/ 60 <= ss.n THEN ParseFail
        ELSE IF ~zn.ok \/ Len(zn.rest) > 0 THEN ParseFail
        ELSE IF dy.n < 1 \/ dy.n > daysIn(mon.n, yr.n) THEN ParseFail
        ELSE LET sec == WNorm(DaysFromCivil(yr.n, mon.n, dy.n),
                              hh.n * 3600 + mi.n * 60 + ss.n - zn.offset)
             IN  [ok |-> TRUE, t |-> [d |-> sec.d, s |-> sec.s, nsec |-> ns]]


----------------------------------------------------------------------------
(* uuid.NewV7 and its canonical text form, as NewAlertID uses them         *)

HexChars == <<"0", "1", "2", "3", "4", "5", "6", "7", "8", "9",
              "a", "b", "c", "d", "e", "f">>

MilliPerDay == SecondsPerDay * 1000

\* The v7 time of a clock reading: milli = nano / 1e6 (kept as day and
\* millisecond of the day), seq = (nano - milli * 1e6) >> 8.
V7Of(t) == [d   |-> t.d,
            ms  |-> t.s * 1000 + (t.nsec \div NanoPerMilli),
            seq |-> (t.nsec % NanoPerMilli) \div 256]

\* milli<<12 + seq of a is at most that of b
V7Leq(a, b) ==
    \/ a.d < b.d
    \/ a.d = b.d /\ a.ms < b.ms
    \/ a.d = b.d /\ a.ms = b.ms /\ a.seq <= b.seq

\* now = lastV7time + 1; milli = now >> 12; seq = now & 0xfff
V7Succ(a) ==
    IF a.seq + 1 < 4096 THEN [a EXCEPT !.seq = a.seq + 1]
    ELSE IF a.ms + 1 < MilliPerDay THEN [d |-> a.d, ms |-> a.ms + 1, seq |-> 0]
    ELSE [d |-> a.d + 1, ms |-> 0, seq |-> 0]

\* A generator that trusts the clock alone (no process-wide last value).
getV7TimeClockOnly(now, last) == V7Of(now)

\* getV7Time: the clock's (milli, seq), pushed past the last one issued.
getV7Time(now, last) ==
    IF V7Leq(V7Of(now), last) THEN V7Succ(last) ELSE V7Of(now)

\* n hexadecimal digits, most significant first, of the number d * MilliPerDay + ms
RECURSIVE HexMilli(_, _, _)
HexMilli(d, ms, n) ==
    IF n = 0 THEN <<>>
    ELSE LET r == (d % 16) * MilliPerDay + ms
         IN  Append(HexMilli(d \div 16, r \div 16, n - 1), HexChars[(r % 16) + 1])

RECURSIVE Hex(_, _)
Hex(v, n) ==
    IF n = 0 THEN <<>> ELSE Append(Hex(v \div 16, n - 1), HexChars[(v % 16) + 1])

\* (b & 0x3f) | 0x80: the variant bits 10 over the six low bits of the byte
VariantByte(b) == (b % 64) + 128

RECURSIVE HexBytes(_)
HexBytes(bytes) ==
    IF bytes = <<>> THEN <<>> ELSE Hex(Head(bytes), 2) \o HexBytes(Tail(bytes))

\* UUID.String() of a v7 UUID: bytes 0-5 the millisecond, byte 6 = 0x70 | seq>>8,
\* byte 7 = seq & 0xff, bytes 8-15 the random bytes rnd with the variant bits
\* set in byte 8.
UUIDString(v7, rnd) ==
    LET tm == HexMilli(v7.d, v7.ms, 12)
        sq == Hex(v7.seq, 3)
        rd == HexBytes(<<VariantByte(rnd[1])>> \o Tail(rnd))
    IN  SubSeq(tm, 1, 8) \o <<"-">> \o SubSeq(tm, 9, 12) \o <<"-">>
        \o <<"7">> \o sq \o <<"-">>
        \o SubSeq(rd, 1, 4) \o <<"-">> \o SubSeq(rd, 5, 16)

\* the number of random bytes of a UUID that makeV7 leaves in place (8 .. 15)
RandLen == 16 - 8

\* NewAlertID: one uuid.NewV7().  rnd is what the random source delivered for
\* bytes 8-15; a short read is the source's failure, on which NewV7 returns an
\* error before it reads the clock, and NewAlertID panics (ok = FALSE).
\* Otherwise the result is the text and the new lastV7time.
NewAlertID(now, last, rnd) ==
    IF Len(rnd) < RandLen
    THEN [ok |-> FALSE, id |-> <<>>, last |-> last]
    ELSE LET v7 == getV7Time(now, last)
         IN  [ok |-> TRUE, id |-> UUIDString(v7, rnd), last |-> v7]

AlertSchemaVersion == <<"v", "0">>

----------------------------------------------------------------------------
(* AlertBody, Alert and NewAlert                                           *)

\* AlertBody.Timestamp (type any) by dynamic type: kind is the Go type, str the
\* string, and a number is (-1)^neg * (whole + 0.frac), frac being the binary
\* digits after the point (empty for an integer).  A float64 is such a value
\* with at most 53 significant binary digits.
TSValue(kind, str, neg, whole, frac) ==
    [kind |-> kind, str |-> str, neg |-> neg, whole |-> whole, frac |-> frac]

TSNil          == TSValue("nil", <<>>, FALSE, ToWide(0), <<>>)
TSString(s)    == TSValue("string", s, FALSE, ToWide(0), <<>>)
TSNum(kind, neg, whole, frac) == TSValue(kind, <<>>, neg, whole, frac)

\* int64(v) of a number: truncation toward zero
Int64Of(ts) == IF ts.neg THEN WNeg(ts.whole) ELSE ts.whole

NoTime == ZeroTime

ErrValue(msg, values) == [msg |-> msg, values |-> values]

(* float64 arithmetic.  A non-negative real below 2^31 is [int, bits]: the   *)
(* integer part and the binary digits after the point.                       *)

\* the significand of a float64 has 53 binary digits
Float64Precision == 53

\* the number of binary digits of n
BitLen(n) == Cardinality({k \in 0..30 : 2^k <= n})

LeadingZeros(bits) ==
    IF \A i \in 1..Len(bits) : bits[i] = 0 THEN Len(bits)
    ELSE (CHOOSE i \in 1..Len(bits) : bits[i] = 1 /\ \A j \in 1..(i - 1) : bits[j] = 0) - 1

HasOne(bits) == \E i \in 1..Len(bits) : bits[i] = 1

\* bits plus one unit in the last place: the carry out and the new digits
IncBits(bits) ==
    IF \A i \in 1..Len(bits) : bits[i] = 1
    THEN [carry |-> 1, bits |-> [i \in 1..Len(bits) |-> 0]]
    ELSE LET k == CHOOSE i \in 1..Len(bits) :
                    bits[i] = 0 /\ \A j \in (i + 1)..Len(bits) : bits[j] = 1
         IN  [carry |-> 0,
              bits |-> [i \in 1..Len(bits) |->
                          IF i < k THEN bits[i] ELSE IF i = k THEN 1 ELSE 0]]

\* The float64 nearest to x, ties to the even significand: the digits kept
\* are the 53 from the leading one on.
RoundDouble(x) ==
    LET p == IF x.int > 0 THEN Float64Precision - BitLen(x.int)
             ELSE LeadingZeros(x.bits) + Float64Precision
        n == Len(x.bits)
    IN  IF n <= p THEN x
        ELSE LET kept == SubSeq(x.bits, 1, p)
                 half == x.bits[p + 1] = 1
                 more == HasOne(SubSeq(x.bits, p + 2, n))
                 odd  == IF p = 0 THEN x.int % 2 = 1 ELSE kept[p] = 1
             IN  IF half /\ (more \/ odd)
                 THEN LET r == IncBits(kept)
                      IN  [int |-> x.int + r.carry, bits |-> r.bits]
                 ELSE [int |-> x.int, bits |-> kept]

(* The product by 1e9 = 2^9 * 5^9 is a long multiplication by 5^9 over    *)
(* groups of ten binary digits, followed by a shift of nine places.       *)

LimbBits == 10
LimbBase == 2^LimbBits
NanoOdd  == 5^9
NanoTwos == 9

BitAt(bits, i) == IF i >= 1 /\ i <= Len(bits) THEN bits[i] ELSE 0

NumLimbs(bits) == (Len(bits) + LimbBits - 1) \div LimbBits

\* the k-th group of ten binary digits of bits, as a number
RECURSIVE LimbFrom(_, _, _)
LimbFrom(bits, k, j) ==
    IF j > LimbBits THEN 0
    ELSE BitAt(bits, LimbBits * (k - 1) + j) * 2^(LimbBits - j) + LimbFrom(bits, k, j + 1)

Limb(bits, k) == LimbFrom(bits, k, 1)

\* 5^9 times the number written by the groups k, k+1, ...: the carry out of
\* group k and the groups of the product
RECURSIVE MulLimbs(_, _)
MulLimbs(bits, k) ==
    IF k > NumLimbs(bits) THEN [carry |-> 0, limbs |-> <<>>]
    ELSE LET r == MulLimbs(bits, k + 1)
             n == Limb(bits, k) * NanoOdd + r.carry
         IN  [carry |-> n \div LimbBase, limbs |-> <<n % LimbBase>> \o r.limbs]

\* The real 1e9 * 0.bits exactly: its integer part and the binary digits
\* after the point
MulNanoExact(bits) ==
    LET m == MulLimbs(bits, 1)
        n == Len(m.limbs) * LimbBits
        digit(i) == (m.limbs[((i - 1) \div LimbBits) + 1]
                       \div 2^(LimbBits - 1 - ((i - 1) % LimbBits))) % 2
    IN  IF n = 0 THEN [int |-> 0, bits |-> <<>>]
        ELSE [int  |-> m.carry * 2^NanoTwos + (m.limbs[1] \div 2^(LimbBits - NanoTwos)),
              bits |-> [i \in 1..(n - NanoTwos) |-> digit(i + NanoTwos)]]

\* the float64 product f * 1e9 of a float64 f = 0.bits
MulNano(bits) == RoundDouble(MulNanoExact(bits))

\* the float64 case with the fraction dropped
FloatToTimeWholeOnly(v) == Unix(Int64Of(v), 0)

\* case float64: sec := int64(v); nsec := int64((v - float64(sec)) * 1e9).
\* float64(sec) is exact for a float64 v and so is the difference, the
\* fraction of v with v's sign; the product is rounded to a float64, and
\* int64() truncates it toward zero.
FloatToTime(v) ==
    LET sec  == Int64Of(v)
        n    == MulNano(v.frac).int
        nsec == IF v.neg THEN -n ELSE n
    IN  Unix(sec, nsec)

\* Timestamp resolution that takes the clock for every string
ResolveTimestampStringsNow(v, now) ==
    IF v.kind = "nil" \/ v.kind = "string" THEN [ok |-> TRUE, ts |-> now, err |-> <<>>]
    ELSE IF v.kind = "int" THEN [ok |-> TRUE, ts |-> Unix(Int64Of(v), 0), err |-> <<>>]
    ELSE IF v.kind = "float64" THEN [ok |-> TRUE, ts |-> FloatToTime(v), err |-> <<>>]
    ELSE [ok |-> FALSE, ts |-> NoTime,
          err |-> <<ErrValue("unsupported timestamp type", <<v>>)>>]

\* The first half of NewAlert: body.Timestamp to a time.Time, or an error.
\* now is what time.Now() reads in the nil case.
ResolveTimestamp(v, now) ==
    IF v.kind = "nil" THEN [ok |-> TRUE, ts |-> now, err |-> <<>>]
    ELSE IF v.kind = "string"
    THEN LET p == ParseRFC3339(v.str)
         IN  IF ~p.ok
             THEN [ok |-> FALSE, ts |-> NoTime,
                   err |-> <<ErrValue("fail to parse timestamp", <<v>>)>>]
             ELSE [ok |-> TRUE, ts |-> p.t, err |-> <<>>]
    ELSE IF v.kind = "int" THEN [ok |-> TRUE, ts |-> Unix(Int64Of(v), 0), err |-> <<>>]
    ELSE IF v.kind = "float64" THEN [ok |-> TRUE, ts |-> FloatToTime(v), err |-> <<>>]
    ELSE [ok |-> FALSE, ts |-> NoTime,
          err |-> <<ErrValue("unsupported timestamp type", <<v>>)>>]

\* A validation that accepts every body
ValidateAcceptAll(x) == <<>>

\* AlertBody.Validate: nil, or the error
Validate(x) ==
    IF x.Title = "" THEN <<ErrValue("title is required", <<>>)>> ELSE <<>>

\* A construction that keeps whatever the resolution gave
ZeroFallbackNone(ts, now) == ts

\* if x.Timestamp.IsZero() { x.Timestamp = time.Now() }
ZeroFallback(ts, now) == IF IsZero(ts) THEN now ELSE ts

\* A literal that also rewrites the embedded body's timestamp
AlertLiteralResolved(id, jobID, ts, body) ==
    [ID |-> id, Version |-> AlertSchemaVersion, JobID |-> jobID, Timestamp |-> ts,
     AlertBody |-> [body EXCEPT !.Timestamp =
                      TSValue("time.Time", <<>>, FALSE, [d |-> ts.d, s |-> ts.s], <<>>)]]

\* x := &Alert{ID: ..., Version: ..., JobID: ..., Timestamp: ts, AlertBody: body}
AlertLiteral(id, jobID, ts, body) ==
    [ID |-> id, Version |-> AlertSchemaVersion, JobID |-> jobID, Timestamp |-> ts,
     AlertBody |-> body]

\* What a call of NewAlert does: it returns (alert, err), each empty (nil) or
\* holding one value, or it panics; last is the identifier source afterwards
\* and gen the number of identifiers generated.
NewAlertResult(alert, err, panicked, last, gen) ==
    [alert |-> alert, err |-> err, panicked |-> panicked, last |-> last, gen |-> gen]

\* A construction that validates the title before it looks at the timestamp
NewAlertValidateFirst(jobID, body, now1, nowID, now2, last, rnd) ==
    LET r   == ResolveTimestamp(body.Timestamp, now1)
        g   == NewAlertID(nowID, last, rnd)
        ver == Validate(body)
    IN  IF ver # <<>> THEN NewAlertResult(<<>>, ver, FALSE, last, 0)
        ELSE IF ~r.ok THEN NewAlertResult(<<>>, r.err, FALSE, last, 0)
        ELSE IF ~g.ok THEN NewAlertResult(<<>>, <<>>, TRUE, last, 0)
        ELSE NewAlertResult(<<AlertLiteral(g.id, jobID, ZeroFallback(r.ts, now2), body)>>,
                            <<>>, FALSE, g.last, 1)

\* NewAlert after the Alert literal is built with the identifier id and the
\* resolved timestamp ts: the zero-time check, body.Validate() and the return.
\* Nothing here touches the identifier source; last is passed through.
NewAlertAfterLiteral(jobID, body, ts, id, now2, last) ==
    IF Validate(body) # <<>> THEN NewAlertResult(<<>>, Validate(body), FALSE, last, 1)
    ELSE NewAlertResult(<<AlertLiteral(id, jobID, ZeroFallback(ts, now2), body)>>,
                        <<>>, FALSE, last, 1)

\* NewAlert from the Alert literal on: g is what NewAlertID() gave while the
\* literal was built and ts the resolved timestamp.
NewAlertFromID(jobID, body, ts, g, now2, last) ==
    IF ~g.ok THEN NewAlertResult(<<>>, <<>>, TRUE, last, 0)
    ELSE NewAlertAfterLiteral(jobID, body, ts, g.id, now2, g.last)

\* NewAlert after the type switch: r is the resolved timestamp or the error.
NewAlertFromTimestamp(jobID, body, r, nowID, now2, last, rnd) ==
    IF ~r.ok THEN NewAlertResult(<<>>, r.err, FALSE, last, 0)
    ELSE NewAlertFromID(jobID, body, r.ts, NewAlertID(nowID, last, rnd), now2, last)

\* NewAlert(ctx, body): jobID is JobIDFromCtx(ctx); last and rnd are the state
\* of the identifier source and what the random source delivers.  The clock
\* is read up to three times, each reading on its own: now1 by time.Now() for
\* a nil timestamp, nowID inside uuid.NewV7 while the Alert literal is built,
\* now2 by time.Now() when the resolved timestamp is the zero time.
NewAlert(jobID, body, now1, nowID, now2, last, rnd) ==
    NewAlertFromTimestamp(jobID, body, ResolveTimestamp(body.Timestamp, now1),
                          nowID, now2, last, rnd)

----------------------------------------------------------------------------
(* The inputs the model draws from                                         *)

\* "2024-01-02T03:04:05Z"
StrUTC == <<"2", "0", "2", "4", "-", "0", "1", "-", "0", "2", "T", "0", "3", ":", "0", "4", ":", "0", "5", "Z">>
\* "2024-01-02T03:04:05+09:00"
StrOffset == <<"2", "0", "2", "4", "-", "0", "1", "-", "0", "2", "T", "0", "3", ":", "0", "4", ":", "0", "5", "+", "0", "9", ":", "0", "0">>
\* "1970-01-01T00:00:00Z"
StrEpoch == <<"1", "9", "7", "0", "-", "0", "1", "-", "0", "1", "T", "0", "0", ":", "0", "0", ":", "0", "0", "Z">>
\* "0001-01-01T00:00:00Z"
StrYearOne == <<"0", "0", "0", "1", "-", "0", "1", "-", "0", "1", "T", "0", "0", ":", "0", "0", ":", "0", "0", "Z">>
\* "0001-01-01T09:00:00+09:00"
StrYearOneOffset == <<"0", "0", "0", "1", "-", "0", "1", "-", "0", "1", "T", "0", "9", ":", "0", "0", ":", "0", "0", "+", "0", "9", ":", "0", "0">>
\* "2024-01-02T03:04:05.5Z"
StrFraction == <<"2", "0", "2", "4", "-", "0", "1", "-", "0", "2", "T", "0", "3", ":", "0", "4", ":", "0", "5", ".", "5", "Z">>
\* "1969-12-31T23:59:59-00:30"
StrBeforeEpoch == <<"1", "9", "6", "9", "-", "1", "2", "-", "3", "1", "T", "2", "3", ":", "5", "9", ":", "5", "9", "-", "0", "0", ":", "3", "0">>
\* "not-a-time"
StrNotATime == <<"n", "o", "t", "-", "a", "-", "t", "i", "m", "e">>
\* ""
StrEmpty == <<>>
\* "2024-01-02 03:04:05Z"
StrSpace == <<"2", "0", "2", "4", "-", "0", "1", "-", "0", "2", " ", "0", "3", ":", "0", "4", ":", "0", "5", "Z">>
\* "2024-13-02T03:04:05Z"
StrMonth13 == <<"2", "0", "2", "4", "-", "1", "3", "-", "0", "2", "T", "0", "3", ":", "0", "4", ":", "0", "5", "Z">>
\* "2023-02-29T03:04:05Z"
StrFeb29 == <<"2", "0", "2", "3", "-", "0", "2", "-", "2", "9", "T", "0", "3", ":", "0", "4", ":", "0", "5", "Z">>
\* "2024-01-02T03:04:05"
StrNoZone == <<"2", "0", "2", "4", "-", "0", "1", "-", "0", "2", "T", "0", "3", ":", "0", "4", ":", "0", "5">>
\* "2024-01-02T24:00:00Z"
StrHour24 == <<"2", "0", "2", "4", "-", "0", "1", "-", "0", "2", "T", "2", "4", ":", "0", "0", ":", "0", "0", "Z">>

RFC3339Strings == {StrUTC, StrOffset, StrEpoch, StrYearOne, StrYearOneOffset, StrFraction, StrBeforeEpoch}
MalformedStrings == {StrNotATime, StrEmpty, StrSpace, StrMonth13, StrFeb29, StrNoZone, StrHour24}

\* The instant each RFC3339 string above denotes, written down by hand as Unix
\* seconds and nanoseconds (the year-one strings denote the zero time).
DenotedInstant(str) ==
    CASE str = StrUTC           -> Unix(ToWide(1704164645), 0)
      [] str = StrOffset        -> Unix(ToWide(1704132245), 0)
      [] str = StrEpoch         -> Unix(ToWide(0), 0)
      [] str = StrYearOne       -> ZeroTime
      [] str = StrYearOneOffset -> ZeroTime
      [] str = StrFraction      -> Unix(ToWide(1704164645), 500000000)
      [] str = StrBeforeEpoch   -> Unix(ToWide(1799), 0)

\* 62135596800, the Unix second of the zero time negated
WideZeroTimeMagnitude == [d |-> UnixToInternalDays, s |-> 0]

\* integers: 1704165845, 0, -1, -62135596800
IntValues(kind) ==
    { TSNum(kind, FALSE, ToWide(1704165845), <<>>),
      TSNum(kind, FALSE, ToWide(0), <<>>),
      TSNum(kind, TRUE, ToWide(1), <<>>),
      TSNum(kind, TRUE, WideZeroTimeMagnitude, <<>>) }

(* float64 values, each the float64 nearest to the decimal shown, with the *)
(* binary digits of its fraction written out.                              *)

\* 1704165845.5
FltPresentHalf ==
    TSNum("float64", FALSE, [d |-> 19724, s |-> 12245],
          <<1>>)
\* 0.0
FltZero ==
    TSNum("float64", FALSE, [d |-> 0, s |-> 0],
          <<>>)
\* 0.0000000005
FltTiny ==
    TSNum("float64", FALSE, [d |-> 0, s |-> 0],
          <<0, 0, 0, 0, 0, 0, 0, 0, 0, 0, 0, 0, 0, 0, 0, 0, 0, 0, 0, 0, 0, 0, 0, 0, 0, 0, 0, 0, 0, 0, 1, 0, 0, 0, 1, 0, 0, 1, 0, 1, 1, 1, 0, 0, 0, 0, 0, 1, 0, 1, 1, 1, 1, 1, 0, 1, 0, 0, 0, 0, 0, 1, 0, 0, 1, 1, 0, 1, 1, 0, 1, 0, 1, 1, 0, 1, 0, 0, 1, 0, 1, 0, 1>>)
\* -1.5
FltNegOneHalf ==
    TSNum("float64", TRUE, [d |-> 0, s |-> 1],
          <<1>>)
\* -0.25
FltNegQuarter ==
    TSNum("float64", TRUE, [d |-> 0, s |-> 0],
          <<0, 1>>)
\* -1.0000000005
FltNegSubNano ==
    TSNum("float64", TRUE, [d |-> 0, s |-> 1],
          <<0, 0, 0, 0, 0, 0, 0, 0, 0, 0, 0, 0, 0, 0, 0, 0, 0, 0, 0, 0, 0, 0, 0, 0, 0, 0, 0, 0, 0, 0, 1, 0, 0, 0, 1, 0, 0, 1, 0, 1, 1, 1, 0, 0, 0, 0, 0, 1, 1>>)
\* -62135596800.0
FltZeroTime ==
    TSNum("float64", TRUE, [d |-> 719162, s |-> 0],
          <<>>)
\* 1704165845.3
FltPresentTenths ==
    TSNum("float64", FALSE, [d |-> 19724, s |-> 12245],
          <<0, 1, 0, 0, 1, 1, 0, 0, 1, 1, 0, 0, 1, 1, 0, 0, 1, 1, 0, 0, 1, 1>>)
\* -1704165845.3
FltNegPresentTenths ==
    TSNum("float64", TRUE, [d |-> 19724, s |-> 12245],
          <<0, 1, 0, 0, 1, 1, 0, 0, 1, 1, 0, 0, 1, 1, 0, 0, 1, 1, 0, 0, 1, 1>>)
\* -1.3
FltNegTenths ==
    TSNum("float64", TRUE, [d |-> 0, s |-> 1],
          <<0, 1, 0, 0, 1, 1, 0, 0, 1, 1, 0, 0, 1, 1, 0, 0, 1, 1, 0, 0, 1, 1, 0, 0, 1, 1, 0, 0, 1, 1, 0, 0, 1, 1, 0, 0, 1, 1, 0, 0, 1, 1, 0, 0, 1, 1, 0, 0, 1, 1, 0, 1>>)
\* -0.0000000005
FltNegTiny ==
    TSNum("float64", TRUE, [d |-> 0, s |-> 0],
          <<0, 0, 0, 0, 0, 0, 0, 0, 0, 0, 0, 0, 0, 0, 0, 0, 0, 0, 0, 0, 0, 0, 0, 0, 0, 0, 0, 0, 0, 0, 1, 0, 0, 0, 1, 0, 0, 1, 0, 1, 1, 1, 0, 0, 0, 0, 0, 1, 0, 1, 1, 1, 1, 1, 0, 1, 0, 0, 0, 0, 0, 1, 0, 0, 1, 1, 0, 1, 1, 0, 1, 0, 1, 1, 0, 1, 0, 0, 1, 0, 1, 0, 1>>)
\* 1700000000.123456789
FltPresentNanos ==
    TSNum("float64", FALSE, [d |-> 19675, s |-> 80000],
          <<0, 0, 0, 1, 1, 1, 1, 1, 1, 0, 0, 1, 1, 0, 1, 0, 1, 1, 0, 1, 1, 1>>)

FloatValues ==
    { FltPresentHalf, FltZero, FltTiny, FltNegOneHalf,
      FltNegQuarter, FltNegSubNano, FltZeroTime, FltPresentTenths,
      FltNegPresentTenths, FltNegTenths, FltNegTiny, FltPresentNanos }

\* What time.Unix(sec, nsec) of the float64 case is for each value above:
\* the results of the Go expressions, written down as Unix seconds and
\* nanoseconds.
DenotedFloatInstant(v) ==
    CASE v = FltPresentHalf       -> Unix(ToWide(1704165845), 500000000)
      [] v = FltZero              -> Unix(ToWide(0), 0)
      [] v = FltTiny              -> Unix(ToWide(0), 0)
      [] v = FltNegOneHalf        -> Unix(ToWide(-2), 500000000)
      [] v = FltNegQuarter        -> Unix(ToWide(-1), 750000000)
      [] v = FltNegSubNano        -> Unix(ToWide(-1), 0)
      [] v = FltZeroTime          -> ZeroTime
      [] v = FltPresentTenths     -> Unix(ToWide(1704165845), 299999952)
      [] v = FltNegPresentTenths  -> Unix(ToWide(-1704165846), 700000048)
      [] v = FltNegTenths         -> Unix(ToWide(-2), 700000000)
      [] v = FltNegTiny           -> Unix(ToWide(0), 0)
      [] v = FltPresentNanos      -> Unix(ToWide(1700000000), 123456716)

\* values of other dynamic types: a bool, a time.Time
OtherValues ==
    { TSValue("bool", <<>>, FALSE, ToWide(0), <<>>),
      TSValue("time.Time", <<>>, FALSE, ToWide(1704165845), <<>>) }

Timestamps ==
    {TSNil} \cup {TSString(x) : x \in RFC3339Strings \cup MalformedStrings}
    \cup IntValues("int") \cup IntValues("int64") \cup FloatValues \cup OtherValues

Titles == {"", "suspicious login"}

\* Description and Attrs (a map, as its set of key-value pairs)
Details == { [Description |-> "", Attrs |-> {}],
             [Description |-> "seen from a new country", Attrs |-> {<<"user", "alice">>}] }

Bodies ==
    { [Title |-> t, Description |-> x.Description, Timestamp |-> ts, Attrs |-> x.Attrs] :
        t \in Titles, x \in Details, ts \in Timestamps }

JobIDs == {"", "job-1"}

\* What the random source delivers for bytes 8-15 of an identifier
RandValues ==
    { <<0, 0, 0, 0, 0, 0, 0, 0>>,
      <<255, 255, 255, 255, 255, 255, 255, 255>>,
      <<94, 17, 0, 171, 205, 239, 1, 35>> }

\* a read of the random source that fails
RandFailure == <<>>

RandOutcomes == RandValues \cup {RandFailure}

MaxTick == 2
MaxGen  == 2

\* Wall-clock readings: 2024-10-04T00:00:00Z plus i * 500300 ns, so that
\* successive readings share a millisecond or not.
ClockAt(i) == Unix([d |-> 20000, s |-> 0], i * 500300)
ClockValues == {ClockAt(i) : i \in 0..MaxTick}

----------------------------------------------------------------------------
(* The state machine                                                       *)

NoBody == [Title |-> "", Description |-> "", Timestamp |-> TSNil, Attrs |-> {}]

V7Zero == [d |-> 0, ms |-> 0, seq |-> 0]

\* A call of NewAlert that has not run: its inputs, and no result yet.
CallOf(body, jobID, rnd) ==
    [made |-> FALSE, body |-> body, jobID |-> jobID, rnd |-> rnd,
     now1 |-> ClockAt(0), nowID |-> ClockAt(0), now2 |-> ClockAt(0),
     alert |-> <<>>, err |-> <<>>, panicked |-> FALSE, gen |-> 0]

NoCall == CallOf(NoBody, "", RandFailure)

\* The call after NewAlert has run on its inputs; now1, nowID and now2 are
\* what the clock read at its three reading points.
Returned(c, now1, nowID, now2, r) ==
    [c EXCEPT !.made = TRUE, !.now1 = now1, !.nowID = nowID, !.now2 = now2,
              !.alert = r.alert, !.err = r.err, !.panicked = r.panicked, !.gen = r.gen]

NoRunEnv ==
    [queryDir |-> <<>>, tree |-> [name |-> <<>>, isDir |-> TRUE, readable |-> TRUE, entries |-> <<>>],
     bqFails |-> FALSE, pubsubFails |-> FALSE, targetInvalid |-> FALSE,
     openFails |-> 0, newTaskFails |-> 0, tasksInvalid |-> FALSE, runTasksFails |-> FALSE]

NoRun == [made |-> FALSE, env |-> NoRunEnv, log |-> <<>>, err |-> ""]

\* the Alert returned, with the clock reading its identifier was generated at
\* and the number of that generation
Record(log, r, nowID, gen) ==
    IF r.alert # <<>>
    THEN Append(log, [ID |-> r.alert[1].ID, at |-> nowID, gen |-> gen])
    ELSE log

\* The clock readings <<nowID, now2>> a call on body can take after the clock
\* read now1 when it started: the clock moves on its own while the call runs,
\* so each reading the call takes is any clock value.  A call that returns
\* at the timestamp's error reads nothing more, and only a resolved timestamp
\* that is the zero time leads to the reading now2; a reading the call does
\* not take is written as the one before it.
ReadingsAfter(r, now1) ==
    IF ~r.ok THEN {<<now1, now1>>}
    ELSE IF IsZero(r.ts) THEN ClockValues \X ClockValues
    ELSE {<<t, t>> : t \in ClockValues}

Readings(body, now1) == ReadingsAfter(ResolveTimestamp(body.Timestamp, now1), now1)

(* NewAlert as a function of its inputs: the initial state draws the body, *)
(* the job, the clock reading and the state of the identifier source; the  *)
(* one action applies NewAlert to them.                                    *)

LastValues == {V7Zero} \cup {V7Of(t) : t \in ClockValues}

InitNewAlert ==
    /\ clock \in ClockValues
    /\ lastV7time \in LastValues
    /\ genCount = 0
    /\ call \in {CallOf(b, j, n) : b \in Bodies, j \in JobIDs, n \in RandOutcomes}
    /\ emitted = <<>>
    /\ pending = {}
    /\ lastPanicked = FALSE
    /\ run = NoRun

\* One call of NewAlert by a lone caller.  The clock is at `clock` when the
\* call starts and is left at the last reading.
Construct ==
    /\ ~call.made
    /\ \E t \in Readings(call.body, clock) :
         \E r \in {NewAlert(call.jobID, call.body, clock, t[1], t[2], lastV7time, call.rnd)} :
           /\ call' = Returned(call, clock, t[1], t[2], r)
           /\ lastV7time' = r.last
           /\ genCount' = genCount + r.gen
           /\ emitted' = Record(emitted, r, t[1], genCount + 1)
           /\ lastPanicked' = r.panicked
           /\ clock' = t[2]
    /\ UNCHANGED <<pending, run>>

NextNewAlert == Construct

SpecNewAlert == InitNewAlert /\ [][NextNewAlert]_vars

(* A process whose goroutines construct Alerts, and generate identifiers   *)
(* for other purposes, while the clock moves.  A call of NewAlert is two   *)
(* steps: up to the Alert literal, whose identifier is generated under     *)
(* uuid's mutex, and from the zero-time check to the return.  Between the  *)
(* two the clock moves and other goroutines take their steps.              *)

SeqBody(title, ts) == [Title |-> title, Description |-> "", Timestamp |-> ts, Attrs |-> {}]

\* bodies that succeed, that fail after the identifier is generated, that
\* fail before it, and that lead to the clock reading of the zero-time check
SeqBodies ==
    { SeqBody("suspicious login", TSNil), SeqBody("", TSNil),
      SeqBody("suspicious login", TSString(StrNotATime)),
      SeqBody("suspicious login", TSString(StrYearOne)) }

\* the random source delivers the same bytes every time, or fails
SeqRandOutcomes == {<<0, 0, 0, 0, 0, 0, 0, 0>>, RandFailure}

\* the readings of the process's clock: the first and the last of the clock
\* values, a millisecond or more apart
SeqClockValues == {ClockAt(0), ClockAt(MaxTick)}

Init ==
    /\ clock = ClockAt(0)
    /\ lastV7time = V7Zero
    /\ genCount = 0
    /\ call = NoCall
    /\ emitted = <<>>
    /\ pending = {}
    /\ lastPanicked = FALSE
    /\ run = NoRun

\* A call that has built its Alert literal: its inputs, the readings it
\* took, the resolved timestamp, the identifier and the number of the
\* generation that gave it.
Pending(body, jobID, rnd, now1, nowID, ts, id, gen) ==
    [body |-> body, jobID |-> jobID, rnd |-> rnd, now1 |-> now1, nowID |-> nowID,
     ts |-> ts, id |-> id, gen |-> gen]

\* A call of NewAlert up to the Alert literal: the type switch, which reads
\* the clock for a nil timestamp and returns the timestamp's error, and
\* NewAlertID(), which reads the clock on its own inside uuid.NewV7 and
\* panics when the random source fails (a panic is the caller's to recover
\* from).
NewAlertCall ==
    /\ genCount < MaxGen
    /\ \E body \in SeqBodies, rnd \in SeqRandOutcomes :
         \E r \in {ResolveTimestamp(body.Timestamp, clock)} :
           IF ~r.ok
           THEN /\ call' = Returned(CallOf(body, "job-1", rnd), clock, clock, clock,
                                    NewAlertResult(<<>>, r.err, FALSE, lastV7time, 0))
                /\ lastPanicked' = FALSE
                /\ UNCHANGED <<clock, lastV7time, genCount, pending>>
           ELSE \E nowID \in SeqClockValues :
                  \E g \in {NewAlertID(nowID, lastV7time, rnd)} :
                    /\ clock' = nowID
                    /\ lastV7time' = g.last
                    /\ lastPanicked' = ~g.ok
                    /\ IF ~g.ok
                       THEN /\ call' = Returned(CallOf(body, "job-1", rnd), clock, nowID, nowID,
                                                NewAlertResult(<<>>, <<>>, TRUE, lastV7time, 0))
                            /\ UNCHANGED <<genCount, pending>>
                       ELSE /\ genCount' = genCount + 1
                            /\ pending' = pending \cup
                                 {Pending(body, "job-1", rnd, clock, nowID, r.ts, g.id,
                                          genCount + 1)}
                            /\ UNCHANGED call
    /\ UNCHANGED <<emitted, run>>

\* The rest of a call: the zero-time check, which reads the clock when the
\* resolved timestamp is the zero time (a reading not taken is written as
\* the one before it), body.Validate() and the return.
NewAlertReturn ==
    /\ \E p \in pending :
         \E r \in {NewAlertAfterLiteral(p.jobID, p.body, p.ts, p.id, clock, lastV7time)} :
           /\ call' = Returned(CallOf(p.body, p.jobID, p.rnd), p.now1, p.nowID,
                                IF IsZero(p.ts) THEN clock ELSE p.nowID, r)
           /\ emitted' = Record(emitted, r, p.nowID, p.gen)
           /\ pending' = pending \ {p}
    /\ lastPanicked' = FALSE
    /\ UNCHANGED <<clock, lastV7time, genCount, run>>

\* One call of the exported NewAlertID outside NewAlert: it takes the next
\* identifier from the same source, or panics.
NewAlertIDCall ==
    /\ genCount < MaxGen
    /\ \E rnd \in SeqRandOutcomes :
         \E g \in {NewAlertID(clock, lastV7time, rnd)} :
           /\ lastV7time' = g.last
           /\ genCount' = IF g.ok THEN genCount + 1 ELSE genCount
           /\ lastPanicked' = ~g.ok
    /\ UNCHANGED <<clock, call, emitted, pending, run>>

\* The wall clock reads something else (it may also step back).
Tick ==
    /\ \E t \in SeqClockValues \ {clock} : clock' = t
    /\ UNCHANGED <<lastV7time, genCount, call, emitted, pending, lastPanicked, run>>

Next == NewAlertCall \/ NewAlertReturn \/ NewAlertIDCall \/ Tick

Spec == Init /\ [][Next]_vars


----------------------------------------------------------------------------
(* The run command: runCommand's Action and listQueryFiles                 *)

NameQueries == <<"q", "u", "e", "r", "i", "e", "s">>
NameASql == <<"a", ".", "s", "q", "l">>
NameBSql == <<"b", ".", "s", "q", "l">>
NameReadme == <<"r", "e", "a", "d", "m", "e", ".", "m", "d">>
NameSub == <<"s", "u", "b">>
NameDirSql == <<"o", "l", "d", ".", "s", "q", "l">>
NameNotes == <<"n", "o", "t", "e", "s">>
NameCSql == <<"c", ".", "s", "q", "l">>
NameLocked == <<"l", "o", "c", "k", "e", "d">>

\* filepath.Ext: the suffix from the last dot of the last path element
RECURSIVE ExtFrom(_, _)
ExtFrom(path, i) ==
    IF i < 1 \/ path[i] = "/" THEN <<>>
    ELSE IF path[i] = "." THEN SubSeq(path, i, Len(path))
    ELSE ExtFrom(path, i - 1)

Ext(path) == ExtFrom(path, Len(path))

\* the elements of a path, between its separators
RECURSIVE SplitPath(_)
SplitPath(path) ==
    IF \A i \in 1..Len(path) : path[i] # "/" THEN <<path>>
    ELSE LET k == CHOOSE i \in 1..Len(path) :
                    path[i] = "/" /\ \A j \in 1..(i - 1) : path[j] # "/"
         IN  <<SubSeq(path, 1, k - 1)>> \o SplitPath(SubSeq(path, k + 1, Len(path)))

RECURSIVE JoinElems(_)
JoinElems(elems) ==
    IF elems = <<>> THEN <<>>
    ELSE IF Len(elems) = 1 THEN elems[1]
    ELSE elems[1] \o <<"/">> \o JoinElems(Tail(elems))

Dot    == <<".">>
DotDot == <<".", ".">>

\* The loop of filepath.Clean over the elements: empty elements and "." are
\* dropped; ".." removes the element before it, is dropped at the root, and
\* is kept at the start of a relative path.
RECURSIVE CleanElems(_, _, _)
CleanElems(elems, out, rooted) ==
    IF elems = <<>> THEN out
    ELSE LET e    == Head(elems)
             rest == Tail(elems)
         IN  IF e = <<>> \/ e = Dot THEN CleanElems(rest, out, rooted)
             ELSE IF e # DotDot THEN CleanElems(rest, Append(out, e), rooted)
             ELSE IF out # <<>> /\ out[Len(out)] # DotDot
             THEN CleanElems(rest, SubSeq(out, 1, Len(out) - 1), rooted)
             ELSE IF rooted THEN CleanElems(rest, out, rooted)
             ELSE CleanElems(rest, Append(out, e), rooted)

\* filepath.Clean: the shortest equivalent path; "." for the empty one
Clean(path) ==
    IF path = <<>> THEN Dot
    ELSE LET rooted == path[1] = "/"
             body   == JoinElems(CleanElems(SplitPath(path), <<>>, rooted))
             out    == IF rooted THEN <<"/">> \o body ELSE body
         IN  IF out = <<>> THEN Dot ELSE out

\* filepath.Join: the non-empty elements joined by "/", then cleaned
Join(dir, name) ==
    LET elems == SelectSeq(<<dir, name>>, LAMBDA e : e # <<>>)
    IN  IF elems = <<>> THEN <<>> ELSE Clean(JoinElems(elems))

\* The characters of file names and identifiers in byte order
ByteOrder ==
    <<"-", ".", "/", "0", "1", "2", "3", "4", "5", "6", "7", "8", "9",
      "a", "b", "c", "d", "e", "f", "g", "h", "i", "j", "k", "l", "m",
      "n", "o", "p", "q", "r", "s", "t", "u", "v", "w", "x", "y", "z">>

ByteRank(c) == CHOOSE i \in 1..Len(ByteOrder) : ByteOrder[i] = c

RECURSIVE StrLeq(_, _)
\* a <= b in the lexicographic (byte) order of strings
StrLeq(a, b) ==
    IF Len(a) = 0 THEN TRUE
    ELSE IF Len(b) = 0 THEN FALSE
    ELSE IF ByteRank(a[1]) # ByteRank(b[1]) THEN ByteRank(a[1]) < ByteRank(b[1])
    ELSE StrLeq(Tail(a), Tail(b))

\* e placed into entries, which are sorted by name
RECURSIVE InsertEntry(_, _)
InsertEntry(e, entries) ==
    IF entries = <<>> THEN <<e>>
    ELSE IF StrLeq(e.name, Head(entries).name) THEN <<e>> \o entries
    ELSE <<Head(entries)>> \o InsertEntry(e, Tail(entries))

RECURSIVE SortEntries(_)
SortEntries(entries) ==
    IF entries = <<>> THEN <<>> ELSE InsertEntry(Head(entries), SortEntries(Tail(entries)))

\* os.ReadDir: the entries of the directory, sorted by file name
ReadDir(dir) == SortEntries(dir.entries)

\* A directory entry: a file, or a directory with its entries;
\* readable is whether os.ReadDir succeeds on a directory.
File(name) == [name |-> name, isDir |-> FALSE, readable |-> TRUE, entries |-> <<>>]
Dir(name, readable, entries) ==
    [name |-> name, isDir |-> TRUE, readable |-> readable, entries |-> entries]

Event(op, path) == [op |-> op, path |-> path]

SqlExt == <<".", "s", "q", "l">>

\* listQueryFiles(queryDir) on a directory whose os.ReadDir gives `entries`:
\* [err, files, log], log being the directories read, in order.  The loop over
\* the entries from index i on is listEntries.
RECURSIVE listQueryFiles(_, _), listEntries(_, _, _)
listQueryFiles(queryDir, dir) ==
    IF ~dir.readable
    THEN [err |-> TRUE, files |-> <<>>, log |-> <<Event("os.ReadDir", queryDir)>>]
    ELSE LET r == listEntries(queryDir, ReadDir(dir), 1)
         IN  [r EXCEPT !.log = <<Event("os.ReadDir", queryDir)>> \o r.log]

listEntries(queryDir, entries, i) ==
    IF i > Len(entries) THEN [err |-> FALSE, files |-> <<>>, log |-> <<>>]
    ELSE LET e == entries[i]
         IN  IF e.isDir
             THEN LET sub == listQueryFiles(Join(queryDir, e.name), e)
                  IN  IF sub.err THEN [err |-> TRUE, files |-> <<>>, log |-> sub.log]
                      ELSE LET rest == listEntries(queryDir, entries, i + 1)
                           IN  [err |-> rest.err,
                                files |-> IF rest.err THEN <<>> ELSE sub.files \o rest.files,
                                log |-> sub.log \o rest.log]
             ELSE LET rest == listEntries(queryDir, entries, i + 1)
                  IN  IF Ext(e.name) = SqlExt /\ ~rest.err
                      THEN [rest EXCEPT !.files = <<Join(queryDir, e.name)>> \o rest.files]
                      ELSE rest

RunResult(log, err) == [log |-> log, err |-> err]

RECURSIVE Closes(_)
\* the deferred utils.SafeClose(fd) calls, last opened first
Closes(opened) ==
    IF Len(opened) = 0 THEN <<>>
    ELSE <<Event("Close", opened[Len(opened)])>> \o Closes(SubSeq(opened, 1, Len(opened) - 1))

\* The loop over queryFiles from index i on: open, NewTask, append.
\* env.openFails and env.newTaskFails are the index of the file at which
\* os.Open or model.NewTask fails (0: none).
RECURSIVE LoadTasks(_, _, _, _)
LoadTasks(env, files, i, opened) ==
    IF i > Len(files) THEN [err |-> "", log |-> <<>>, opened |-> opened]
    ELSE IF env.openFails = i
    THEN [err |-> "Fail to open query file", log |-> <<Event("os.Open", files[i])>>,
          opened |-> opened]
    ELSE IF env.newTaskFails = i
    THEN [err |-> "NewTask", log |-> <<Event("os.Open", files[i]), Event("model.NewTask", files[i])>>,
          opened |-> Append(opened, files[i])]
    ELSE LET rest == LoadTasks(env, files, i + 1, Append(opened, files[i]))
         IN  [rest EXCEPT !.log = <<Event("os.Open", files[i]), Event("model.NewTask", files[i])>>
                                   \o rest.log]

\* What follows target.Validate in the Action: the files are opened and parsed,
\* the tasks validated and run; every opened file is closed on return.
RunFromTasks(env, files) ==
    LET ld == LoadTasks(env, files, 1, <<>>)
    IN  IF ld.err # "" THEN RunResult(ld.log \o Closes(ld.opened), ld.err)
        ELSE IF env.tasksInvalid
        THEN RunResult(ld.log \o <<Event("tasks.Validate", <<>>)>> \o Closes(ld.opened),
                       "tasks.Validate")
        ELSE RunResult(ld.log \o <<Event("tasks.Validate", <<>>), Event("usecase.RunTasks", <<>>)>>
                         \o Closes(ld.opened),
                       IF env.runTasksFails THEN "usecase.RunTasks" ELSE "")

\* The Action of the run command in environment env: the log of what it
\* did outside the process, in order, and the error it returns ("" is nil).
RunCommandAction(env) ==
    LET ls == listQueryFiles(env.queryDir, env.tree)
        l1 == ls.log
        l2 == l1 \o <<Event("bq.Configure", <<>>)>>
        l3 == l2 \o <<Event("pubsub.Configure", <<>>)>>
        l4 == l3 \o <<Event("target.Validate", <<>>)>>
    IN  IF ls.err THEN RunResult(l1, "Fail to read query directory")
        ELSE IF Len(ls.files) = 0 THEN RunResult(l1, "No query files")
        ELSE IF env.bqFails THEN RunResult(l2, "bq.Configure")
        ELSE IF env.pubsubFails THEN RunResult(l3, "pubsub.Configure")
        ELSE IF env.targetInvalid THEN RunResult(l4, "target.Validate")
        ELSE LET r == RunFromTasks(env, ls.files)
             IN  RunResult(l4 \o r.log, r.err)

\* The directories the command is pointed at.
Trees ==
    { Dir(NameQueries, FALSE, <<>>),
      Dir(NameQueries, TRUE, <<>>),
      Dir(NameQueries, TRUE, <<File(NameReadme)>>),
      Dir(NameQueries, TRUE, <<File(NameASql), File(NameReadme)>>),
      Dir(NameQueries, TRUE, <<File(NameASql), Dir(NameSub, TRUE, <<File(NameBSql)>>)>>),
      Dir(NameQueries, TRUE, <<File(NameASql), Dir(NameLocked, FALSE, <<>>)>>),
      Dir(NameQueries, TRUE,
          <<File(NameBSql), Dir(NameDirSql, TRUE, <<File(NameCSql), File(NameNotes)>>)>>) }

\* The --query-dir values: "queries", ".", "/", "queries/", "./queries"
QueryDirs ==
    { NameQueries, Dot, <<"/">>, NameQueries \o <<"/">>, <<".", "/">> \o NameQueries }

MaxFiles == 2

Envs ==
    [ queryDir : QueryDirs, tree : Trees,
      bqFails : BOOLEAN, pubsubFails : BOOLEAN, targetInvalid : BOOLEAN,
      openFails : 0..MaxFiles, newTaskFails : 0..MaxFiles,
      tasksInvalid : BOOLEAN, runTasksFails : BOOLEAN ]

InitRun ==
    /\ clock = ClockAt(0)
    /\ lastV7time = V7Zero
    /\ genCount = 0
    /\ call = NoCall
    /\ emitted = <<>>
    /\ pending = {}
    /\ lastPanicked = FALSE
    /\ run \in {[made |-> FALSE, env |-> e, log |-> <<>>, err |-> ""] : e \in Envs}

\* One execution of the run command.
RunAction ==
    /\ ~run.made
    /\ LET r == RunCommandAction(run.env)
       IN  run' = [run EXCEPT !.made = TRUE, !.log = r.log, !.err = r.err]
    /\ UNCHANGED <<clock, lastV7time, genCount, call, emitted, pending, lastPanicked>>

NextRun == RunAction

SpecRun == InitRun /\ [][NextRun]_vars


----------------------------------------------------------------------------
(* Properties of NewAlert, checked under SpecNewAlert                      *)

Succeeded == call.made /\ call.alert # <<>> /\ call.err = <<>> /\ ~call.panicked
Failed    == call.made /\ call.alert = <<>> /\ call.err # <<>> /\ ~call.panicked
Panicked  == call.made /\ call.alert = <<>> /\ call.err = <<>> /\ call.panicked

\* the random source fails during the call
SourceFails == call.rnd = RandFailure

TS == call.body.Timestamp

MissingTitle == <<ErrValue("title is required", <<>>)>>
MalformedTimestamp(v)       == <<ErrValue("fail to parse timestamp", <<v>>)>>
UnsupportedTimestampType(v) == <<ErrValue("unsupported timestamp type", <<v>>)>>

IsMalformedString(v) == v.kind = "string" /\ v.str \in MalformedStrings
IsRFC3339String(v)   == v.kind = "string" /\ v.str \in RFC3339Strings

\* the shapes the code resolves to a time
Resolves(v) == v.kind \in {"nil", "int", "float64"} \/ IsRFC3339String(v)

TimeAddNanos(t, n) == Unix([d |-> t.d, s |-> t.s], t.nsec + n)

\* the inputs that denote the zero time, 0001-01-01T00:00:00Z
DenotesZeroTime(v) ==
    \/ v.kind = "string" /\ v.str \in {StrYearOne, StrYearOneOffset}
    \/ v.kind \in {"int", "float64"} /\ v.neg /\ v.whole = WideZeroTimeMagnitude /\ v.frac = <<>>

\* C1 as stated (for the calls that return): a body with an empty Title
\* always fails with the missing-title error and no Alert, whatever its
\* Timestamp is.
C1_EmptyTitleAlwaysMissingTitle ==
    (call.made /\ call.body.Title = "" /\ ~call.panicked) =>
        (call.alert = <<>> /\ call.err = MissingTitle)

\* C1 amended: a body with an empty Title never yields an Alert.  The
\* timestamp is examined first: a malformed string or an unsupported type
\* fails with the timestamp's own error.  When the Timestamp is absent or
\* resolves, an identifier is generated next: the call panics if the random
\* source fails, and fails with the missing-title error otherwise.
C1_EmptyTitleFails ==
    (call.made /\ call.body.Title = "") =>
        /\ call.alert = <<>>
        /\ IsMalformedString(TS) => (Failed /\ call.err = MalformedTimestamp(TS))
        /\ (~Resolves(TS) /\ TS.kind # "string") =>
             (Failed /\ call.err = UnsupportedTimestampType(TS))
        /\ (Resolves(TS) /\ SourceFails) => Panicked
        /\ (Resolves(TS) /\ ~SourceFails) => (Failed /\ call.err = MissingTitle)

C1_Witness ==
    /\ call.made /\ call.body.Title = "" /\ TS.kind = "float64"
    /\ call.body.Description # "" /\ call.err = MissingTitle /\ call.alert = <<>>
    /\ call.gen = 1

\* C2: every Alert returned has a non-empty Title and a Timestamp that is not
\* the zero time; when the input denotes the zero time the Timestamp is what
\* the clock reads at the zero-time check.
C2_TitleAndNonZeroTimestamp ==
    (call.made /\ call.alert # <<>>) =>
        /\ call.alert[1].AlertBody.Title # ""
        /\ call.alert[1].Timestamp # ZeroTime
        /\ DenotesZeroTime(TS) => call.alert[1].Timestamp = call.now2

C2_Witness ==
    /\ Succeeded /\ TS = TSString(StrYearOne)
    /\ call.now2 # call.now1 /\ call.now2 # call.nowID
    /\ call.alert[1].Timestamp = call.now2

\* C3 as stated (for the calls that return): with a non-empty Title and an
\* RFC3339 string, NewAlert succeeds and the Timestamp is exactly the instant
\* the string denotes.
C3_StringDenotedInstant ==
    (call.made /\ call.body.Title # "" /\ IsRFC3339String(TS) /\ ~call.panicked) =>
        (Succeeded /\ call.alert[1].Timestamp = DenotedInstant(TS.str))

\* C3 amended: with a non-empty Title and an RFC3339 string, NewAlert panics
\* if the random source fails while the identifier is generated; otherwise it
\* succeeds and the Timestamp is the instant the string denotes, unless that
\* instant is the zero time, in which case it is the clock reading taken at
\* the zero-time check.
C3_StringDenotedInstantOrNow ==
    (call.made /\ call.body.Title # "" /\ IsRFC3339String(TS)) =>
        /\ SourceFails => Panicked
        /\ ~SourceFails =>
             /\ Succeeded
             /\ call.alert[1].Timestamp =
                  IF DenotedInstant(TS.str) = ZeroTime THEN call.now2
                  ELSE DenotedInstant(TS.str)

C3_Witness ==
    /\ Succeeded /\ TS = TSString(StrOffset)
    /\ call.alert[1].Timestamp = Unix(ToWide(1704132245), 0)

\* C4: a string Timestamp that is not RFC3339 makes NewAlert fail with the
\* malformed-timestamp error carrying that string, and no Alert, whatever
\* the other fields are.
C4_MalformedStringFails ==
    (call.made /\ IsMalformedString(TS)) =>
        (call.alert = <<>> /\ call.err = MalformedTimestamp(TS))

C4_Witness ==
    /\ call.made /\ TS = TSString(StrNotATime) /\ call.body.Title = ""
    /\ call.err = MalformedTimestamp(TSString(StrNotATime)) /\ call.alert = <<>>

IntegerKinds == {"int", "int64"}

\* C5 (for the calls that return, read with the zero-time rule of C2): with
\* a non-empty Title and an integer Timestamp v of any integer type, NewAlert
\* succeeds and the Timestamp is Unix(v, 0).
C5_IntegerSeconds ==
    (call.made /\ call.body.Title # "" /\ TS.kind \in IntegerKinds /\ ~call.panicked) =>
        /\ Succeeded
        /\ call.alert[1].Timestamp =
             IF DenotesZeroTime([TS EXCEPT !.kind = "int"]) THEN call.now2
             ELSE Unix(Int64Of(TS), 0)

\* floor(v) and (v - floor(v)) * 1e9 of a float64 v, the formula of the
\* specification evaluated in float64 arithmetic: for a negative v that is
\* not whole, v - floor(v) is 1 - 0.frac rounded to a float64.
FloorOf(v) ==
    IF v.neg /\ HasOne(v.frac) THEN WAddInt(WNeg(v.whole), -1) ELSE Int64Of(v)
FloorFraction(v) ==
    IF v.neg /\ HasOne(v.frac)
    THEN RoundDouble([int |-> 0,
                      bits |-> IncBits([i \in 1..Len(v.frac) |-> 1 - v.frac[i]]).bits])
    ELSE [int |-> 0, bits |-> v.frac]
FloorNanos(v) ==
    LET f == FloorFraction(v)
    IN  IF f.int = 1 THEN NanoPerSec ELSE MulNano(f.bits).int
FloorInstant(v) == Unix(FloorOf(v), FloorNanos(v))

\* C6 (for the calls that return, read with the zero-time rule of C2): with
\* a non-empty Title and a float Timestamp v, positive or negative, the
\* Timestamp is Unix(floor(v), (v - floor(v)) * 1e9).
C6_FloatFloorFormula ==
    (call.made /\ call.body.Title # "" /\ TS.kind = "float64" /\ ~call.panicked) =>
        /\ Succeeded
        /\ call.alert[1].Timestamp =
             IF FloorInstant(TS) = ZeroTime THEN call.now2 ELSE FloorInstant(TS)

\* C6 amended: with a non-empty Title and a float Timestamp v, NewAlert
\* panics if the random source fails while the identifier is generated and
\* succeeds otherwise.  The Timestamp is Unix(trunc(v), trunc((v - trunc(v))
\* * 1e9)) in float64 arithmetic, seconds and nanoseconds both truncated
\* toward zero: the floor-formula instant when v >= 0 or v is whole, and for
\* a negative v that is not whole that instant or the one a nanosecond after
\* it; an instant that is the zero time is replaced by the clock reading
\* taken at the zero-time check.
C6_FloatTruncation ==
    (call.made /\ call.body.Title # "" /\ TS.kind = "float64") =>
        /\ SourceFails => Panicked
        /\ ~SourceFails =>
             /\ Succeeded
             /\ LET t == DenotedFloatInstant(TS)
                IN  /\ call.alert[1].Timestamp = IF t = ZeroTime THEN call.now2 ELSE t
                    /\ t \in {FloorInstant(TS), TimeAddNanos(FloorInstant(TS), 1)}
                    /\ (~TS.neg \/ ~HasOne(TS.frac)) => t = FloorInstant(TS)

C6_Witness ==
    /\ Succeeded /\ TS = FltNegPresentTenths
    /\ call.alert[1].Timestamp = Unix(ToWide(-1704165846), 700000048)
    /\ FloorInstant(TS) = Unix(ToWide(-1704165846), 700000047)

\* C9 as stated: in every Alert returned, the Timestamp of the embedded
\* AlertBody too is a resolved instant, never the original shape.
C9_NoVariantCarried ==
    (call.made /\ call.alert # <<>>) =>
        call.alert[1].AlertBody.Timestamp.kind = "time.Time"

\* C9 amended: in every Alert returned, the Alert's own Timestamp is a
\* resolved, non-zero instant, and the embedded AlertBody is the input body
\* unchanged, its Timestamp still in the shape it arrived in.
C9_OwnTimestampResolved ==
    (call.made /\ call.alert # <<>>) =>
        /\ call.alert[1].Timestamp \in [d : Int, s : 0..(SecondsPerDay - 1), nsec : 0..(NanoPerSec - 1)]
        /\ call.alert[1].Timestamp # ZeroTime
        /\ call.alert[1].AlertBody = call.body
        /\ call.alert[1].AlertBody.Timestamp.kind \in {"nil", "string", "int", "float64"}

C9_Witness ==
    /\ Succeeded /\ TS = TSString(StrUTC)
    /\ call.alert[1].AlertBody.Timestamp = TSString(StrUTC)
    /\ call.alert[1].Timestamp = Unix(ToWide(1704164645), 0)

\* C10 (for the calls that return): NewAlert returns an Alert or an error, never both or neither; it
\* fails exactly when the Timestamp is a string that is not RFC3339, or is
\* present with a type other than string, integer or float, or the Title is
\* empty; otherwise the Alert has the schema version, the job of the
\* context, and the Title, Description and Attrs of the body.
C10_FailsExactlyWhen ==
    (call.made /\ ~call.panicked) =>
        /\ (call.alert = <<>>) # (call.err = <<>>)
        /\ Failed <=> \/ IsMalformedString(TS)
                      \/ TS.kind \notin ({"nil", "string", "float64"} \cup IntegerKinds)
                      \/ call.body.Title = ""
        /\ Succeeded =>
             /\ call.alert[1].Version = AlertSchemaVersion
             /\ call.alert[1].JobID = call.jobID
             /\ call.alert[1].AlertBody.Title = call.body.Title
             /\ call.alert[1].AlertBody.Description = call.body.Description
             /\ call.alert[1].AlertBody.Attrs = call.body.Attrs

----------------------------------------------------------------------------
(* Properties of the identifiers, checked under Spec                       *)

TimeLeq(a, b) ==
    \/ WLess(a, b)
    \/ a.d = b.d /\ a.s = b.s /\ a.nsec <= b.nsec

\* C7: each Alert returned got its ID from one identifier generation of its
\* own; no two Alerts returned share an ID; and of two Alerts returned, in
\* whichever order they were returned, the one whose identifier was generated
\* later has the lexicographically greater ID, so in particular when it was
\* generated at least one millisecond after the other.
C7_UniqueSortableIDs ==
    /\ call.alert # <<>> => call.gen = 1
    /\ \A i \in 1..Len(emitted) : emitted[i].gen \in 1..genCount
    /\ \A i, j \in 1..Len(emitted) :
         i # j =>
           /\ emitted[i].gen # emitted[j].gen
           /\ emitted[i].ID # emitted[j].ID
           /\ emitted[i].gen < emitted[j].gen => StrLeq(emitted[i].ID, emitted[j].ID)

\* two Alerts returned in the reverse of the order of their generations, the
\* second generated a millisecond after the first
C7_Witness ==
    /\ Len(emitted) = 2
    /\ emitted[1].gen > emitted[2].gen
    /\ TimeLeq(TimeAddNanos(emitted[2].at, NanoPerMilli), emitted[1].at)
    /\ call.made /\ call.gen = 1 /\ call.alert # <<>>
    /\ call.alert[1].ID = emitted[2].ID
    /\ StrLeq(emitted[2].ID, emitted[1].ID) /\ ~StrLeq(emitted[1].ID, emitted[2].ID)

----------------------------------------------------------------------------
(* Properties of the run command, checked under SpecRun                    *)

IOOps == {"os.ReadDir", "os.Open", "bq.Configure", "pubsub.Configure", "usecase.RunTasks"}

\* C8: when target.Validate fails, the command has read no query directory,
\* opened no query file, configured no BigQuery or Pub/Sub client and not
\* called RunTasks.
C8_TargetValidatedBeforeIO ==
    (run.made /\ run.err = "target.Validate") =>
        \A i \in 1..Len(run.log) : run.log[i].op \notin IOOps

=============================================================================
